---- MODULE Spec2Model ----
(***************************************************************************)
(* Spending-forecast tracker: the identifier codec and the yearly/monthly *)
(* converter of services/forecast_transformation.py, and the forecast and *)
(* snapshot repositories of repositories/forecast_repository.py.          *)
(*                                                                         *)
(* Python values that may be None are modelled as options: None is the    *)
(* empty sequence and a value v is the one-element sequence <<v>>.  A     *)
(* Python str that the code takes apart (the forecast id) is a sequence   *)
(* of one-character strings.  A dict and an object are functions from     *)
(* key (attribute) names to values; "k in d" and hasattr are membership   *)
(* in DOMAIN.  Amounts are integers: every float the model handles is one *)
(* that a double represents exactly, so float addition is exact on them.  *)
(***************************************************************************)
EXTENDS Integers, Sequences, FiniteSets, TLC

VARIABLES
    codec,              \* the codec under test: its input, token and result
    conv,               \* the converter under test: its input and output
    forecast_months,    \* table forecast_months, in insertion order
    snapshot_headers,   \* table forecast_snapshot_headers, in insertion order
    snapshot_months,    \* table forecast_snapshot_months, in insertion order
    next_header_id,     \* the next primary key of forecast_snapshot_headers
    last,               \* the last repository call and what it returned or raised
    calls,              \* the number of repository calls so far
    sessions            \* the calls in progress, one database session each

db == <<forecast_months, snapshot_headers, snapshot_months, next_header_id>>

vars == <<codec, conv, forecast_months, snapshot_headers, snapshot_months,
          next_header_id, last, calls, sessions>>

(***************************************************************************)
(* Bounds of the model.                                                    *)
(***************************************************************************)
MaxProjectId == 10
MaxTokenLen == 4
MaxAmount == 1
MaxRecords == 2
MaxCalls == 4

(***************************************************************************)
(* Python values.                                                          *)
(***************************************************************************)
None == <<>>

Some(v) == <<v>>

\* dict.get(key, default)
Get(d, key, default) == IF key \in DOMAIN d THEN d[key] ELSE default

\* Python "a or b" on options; zero is the falsy value of the field's type
\* (0 for an int, "" for a str).
PyOr(a, b, zero) == IF a # None /\ a # Some(zero) THEN a ELSE b

\* A list built by a loop or a comprehension: its items, each built once.
List(items) == items \o <<>>

ValueError == [raised |-> "ValueError"]

Returned(v) == [raised |-> "", value |-> v]

(***************************************************************************)
(* Identifier codec.                                                       *)
(***************************************************************************)
Digits == <<"0", "1", "2", "3", "4", "5", "6", "7", "8", "9">>

IsDigit(c) == \E i \in 1..10 : Digits[i] = c

DigitVal(c) == (CHOOSE i \in 1..10 : Digits[i] = c) - 1

RECURSIVE NatToStr(_)
\* str() of a non-negative int: its decimal digits.
NatToStr(n) == IF n < 10 THEN <<Digits[n + 1]>>
               ELSE NatToStr(n \div 10) \o <<Digits[(n % 10) + 1]>>

\* str() of an int, as an f-string formats it.
IntToStr(n) == IF n < 0 THEN <<"-">> \o NatToStr(0 - n) ELSE NatToStr(n)

RECURSIVE Split(_)
\* str.split('_'): the parts between the delimiters, empty parts included.
Split(s) ==
    IF \A i \in 1..Len(s) : s[i] # "_" THEN <<s>>
    ELSE LET i == CHOOSE j \in 1..Len(s) :
                      s[j] = "_" /\ \A k \in 1..(j - 1) : s[k] # "_"
         IN  <<SubSeq(s, 1, i - 1)>> \o Split(SubSeq(s, i + 1, Len(s)))

RECURSIVE Strip(_)
\* str.strip() for the blank character.
Strip(s) == IF s = <<>> THEN s
            ELSE IF Head(s) = " " THEN Strip(Tail(s))
            ELSE IF s[Len(s)] = " " THEN Strip(SubSeq(s, 1, Len(s) - 1))
            ELSE s

\* The digits of an int() argument: blanks stripped, one optional sign removed.
Unsigned(s) == LET t == Strip(s)
               IN  IF t # <<>> /\ Head(t) \in {"+", "-"} THEN Tail(t) ELSE t

\* int(s) does not raise: at least one digit and nothing but digits.
PyIntOk(s) == LET u == Unsigned(s)
              IN  u # <<>> /\ \A i \in 1..Len(u) : IsDigit(u[i])

RECURSIVE DigitsVal(_)
DigitsVal(u) == IF u = <<>> THEN 0
                ELSE 10 * DigitsVal(SubSeq(u, 1, Len(u) - 1)) + DigitVal(u[Len(u)])

\* int(s) for an s that parses.
PyInt(s) == LET t == Strip(s)
            IN  IF Head(t) = "-" THEN 0 - DigitsVal(Unsigned(s)) ELSE DigitsVal(Unsigned(s))

\* An f-string field for a value that is an int or None.
Format(x) == IF x = None THEN <<"N", "o", "n", "e">> ELSE IntToStr(x[1])

encode_forecast_id_swapped(project_id, year) ==
    IntToStr(year) \o <<"_">> \o Format(project_id)

\* project_id is an option (an int or None), year an int.
encode_forecast_id(project_id, year) ==
    Format(project_id) \o <<"_">> \o IntToStr(year)

decode_forecast_id_lenient(forecast_id) ==
    LET parts == Split(forecast_id)
    IN  IF Len(parts) < 2 THEN ValueError
        ELSE IF ~PyIntOk(parts[1]) THEN ValueError
        ELSE IF ~PyIntOk(parts[2]) THEN ValueError
        ELSE Returned(<<PyInt(parts[1]), PyInt(parts[2])>>)

decode_forecast_id(forecast_id) ==
    LET parts == Split(forecast_id)
    IN  IF Len(parts) # 2 THEN ValueError
        ELSE IF ~PyIntOk(parts[1]) THEN ValueError
        ELSE IF ~PyIntOk(parts[2]) THEN ValueError
        ELSE Returned(<<PyInt(parts[1]), PyInt(parts[2])>>)

(***************************************************************************)
(* Yearly/monthly converter.                                               *)
(***************************************************************************)
MONTH_NAMES == <<"jan", "feb", "mar", "apr", "may", "jun",
                 "jul", "aug", "sep", "oct", "nov", "dec">>

MonthNameSet == {MONTH_NAMES[m] : m \in 1..Len(MONTH_NAMES)}

\* The dict built for month month_num (lines 63-78); float() of an amount
\* leaves a number unchanged.
MonthlyRecord(yearly_data, year, month_num) ==
    LET got    == Get(yearly_data, MONTH_NAMES[month_num], Some(0))
        amount == IF got = None THEN Some(0) ELSE got
    IN  [month         |-> month_num,
         amount        |-> amount,
         year          |-> year,
         department_id |-> PyOr(Get(yearly_data, "department_id", None),
                                Get(yearly_data, "departmentId", None), 0),
         project_id    |-> PyOr(Get(yearly_data, "project_id", None),
                                Get(yearly_data, "projectId", None), 0),
         project_name  |-> PyOr(Get(yearly_data, "project_name", None),
                                Get(yearly_data, "projectName", None), ""),
         profit_center |-> PyOr(Get(yearly_data, "profit_center", None),
                                Get(yearly_data, "profitCenter", None), ""),
         wbs           |-> Get(yearly_data, "wbs", None),
         account       |-> Get(yearly_data, "account", None)]

yearly_forecast_to_monthly_records_from_zero(yearly_data, year) ==
    [i \in 1..Len(MONTH_NAMES) |->
        [MonthlyRecord(yearly_data, year, i) EXCEPT !.month = i - 1]]

yearly_forecast_to_monthly_records_keep_null(yearly_data, year) ==
    [i \in 1..Len(MONTH_NAMES) |->
        [MonthlyRecord(yearly_data, year, i)
            EXCEPT !.amount = Get(yearly_data, MONTH_NAMES[i], Some(0))]]

yearly_forecast_to_monthly_records(yearly_data, year) ==
    List([i \in 1..Len(MONTH_NAMES) |-> MonthlyRecord(yearly_data, year, i)])


\* The place of record i of s in the sorted list: after the records of a
\* smaller month and after the earlier records of its own month.
PlaceByMonth(s, i) ==
    Cardinality({j \in 1..Len(s) :
                    \/ s[j].month < s[i].month
                    \/ s[j].month = s[i].month /\ j <= i})

SortedByMonth_unsorted(s) == List(s)

\* sorted(records, key=lambda r: r.month): a stable sort.
SortedByMonth(s) ==
    LET records == List(s)
        place   == List([i \in 1..Len(records) |-> PlaceByMonth(records, i)])
    IN  List([k \in 1..Len(records) |->
                records[CHOOSE i \in 1..Len(records) : place[i] = k]])

\* amount if amount is not None else 0, for a record of a month in 1..12;
\* the loop skips any other record.
AmountOf(record) ==
    IF 1 <= record.month /\ record.month <= 12
    THEN IF record.amount # None THEN record.amount[1] ELSE 0
    ELSE 0

RECURSIVE TotalOf(_, _)
\* total after the first n records of the loop.
TotalOf(sorted_records, n) ==
    IF n = 0 THEN 0 ELSE TotalOf(sorted_records, n - 1) + AmountOf(sorted_records[n])

\* The loop over the sorted records: a record whose month is in 1..12 sets
\* its month's field, so the last record of a month is the one that stays,
\* and adds to the running total.
ExtractAmounts(sorted_records) ==
    LET present == {sorted_records[i].month : i \in 1..Len(sorted_records)} \cap 1..12
        LastOf(m) == CHOOSE i \in 1..Len(sorted_records) :
                        /\ sorted_records[i].month = m
                        /\ \A j \in (i + 1)..Len(sorted_records) :
                              sorted_records[j].month # m
    IN  [yearly |-> [name \in {MONTH_NAMES[m] : m \in present} |->
                        AmountOf(sorted_records[
                            LastOf(CHOOSE m \in present : MONTH_NAMES[m] = name)])],
         total  |-> TotalOf(sorted_records, Len(sorted_records))]

YearlyAmounts_stale_sum(sorted_records) ==
    LET acc == ExtractAmounts(sorted_records)
    IN  [name \in MonthNameSet |-> Get(acc.yearly, name, 0)]
        @@ ("total" :> acc.total) @@ ("yearly_sum" :> 0)

YearlyAmounts_no_fill(sorted_records) ==
    LET acc == ExtractAmounts(sorted_records)
    IN  acc.yearly @@ ("total" :> acc.total) @@ ("yearly_sum" :> acc.total)

\* The yearly dict after the amounts, the fill of the missing months and the
\* totals (lines 100-119, and again 161-180).
YearlyAmounts(sorted_records) ==
    LET acc == ExtractAmounts(sorted_records)
    IN  [name \in MonthNameSet |-> Get(acc.yearly, name, 0)]
        @@ ("total" :> acc.total) @@ ("yearly_sum" :> acc.total)

\* The fields copied from the first record, those guarded by hasattr included.
FirstRecordFields(first_record) ==
    [k \in {"department_id", "project_id", "project_name", "profit_center",
            "wbs", "account"} |-> first_record[k]]
    @@ [k \in {"created_by", "created_at", "updated_at"} \cap DOMAIN first_record
            |-> first_record[k]]
    @@ (IF "year" \in DOMAIN first_record
        THEN "id" :> encode_forecast_id(first_record.project_id, first_record.year)
        ELSE <<>>)

monthly_records_to_yearly_forecast_unchecked(monthly_records) ==
    IF monthly_records = <<>>
    THEN Returned([name \in MonthNameSet \cup {"total", "yearly_sum"} |-> 0])
    ELSE LET sorted_records == SortedByMonth(monthly_records)
         IN  Returned(YearlyAmounts(sorted_records)
                      @@ FirstRecordFields(sorted_records[1]))

monthly_records_to_yearly_forecast(monthly_records) ==
    IF monthly_records = <<>> THEN ValueError
    ELSE LET sorted_records == SortedByMonth(monthly_records)
         IN  Returned(YearlyAmounts(sorted_records)
                      @@ FirstRecordFields(sorted_records[1]))

snapshot_header_to_yearly_view_unsorted(snapshot_header) ==
    IF "monthly_snapshots" \notin DOMAIN snapshot_header
       \/ snapshot_header.monthly_snapshots = <<>>
    THEN ValueError
    ELSE LET sorted_records == SortedByMonth(snapshot_header.monthly_snapshots)
             first_record   == snapshot_header.monthly_snapshots[1]
         IN  Returned(
                 [k \in {"id", "is_approved", "snapshot_date", "submitted_by",
                         "approved_by", "approved_at", "department_id",
                         "project_id", "year"} |-> snapshot_header[k]]
                 @@ ("forecast_id" :> encode_forecast_id(snapshot_header.project_id,
                                                         snapshot_header.year))
                 @@ [k \in {"project_name", "profit_center", "wbs", "account"}
                        |-> first_record[k]]
                 @@ YearlyAmounts(sorted_records))

snapshot_header_to_yearly_view(snapshot_header) ==
    IF "monthly_snapshots" \notin DOMAIN snapshot_header
       \/ snapshot_header.monthly_snapshots = <<>>
    THEN ValueError
    ELSE LET sorted_records == SortedByMonth(snapshot_header.monthly_snapshots)
             first_record   == sorted_records[1]
         IN  Returned(
                 [k \in {"id", "is_approved", "snapshot_date", "submitted_by",
                         "approved_by", "approved_at", "department_id",
                         "project_id", "year"} |-> snapshot_header[k]]
                 @@ ("forecast_id" :> encode_forecast_id(snapshot_header.project_id,
                                                         snapshot_header.year))
                 @@ [k \in {"project_name", "profit_center", "wbs", "account"}
                        |-> first_record[k]]
                 @@ YearlyAmounts(sorted_records))

\* database.ForecastMonth(...) as ForecastRepository.create and update build
\* it from a monthly record; line_id is never assigned and the dates are the
\* column defaults (date.today, modelled as one day).
ForecastMonth(month_data, created_by) ==
    [line_id       |-> None,
     department_id |-> month_data.department_id,
     project_id    |-> month_data.project_id,
     year          |-> month_data.year,
     month         |-> month_data.month,
     amount        |-> month_data.amount,
     project_name  |-> month_data.project_name,
     profit_center |-> month_data.profit_center,
     wbs           |-> month_data.wbs,
     account       |-> month_data.account,
     created_by    |-> created_by,
     created_at    |-> "today",
     updated_at    |-> "today"]

(***************************************************************************)
(* Response schemas (models/schemas.py).  Building a schema object from a *)
(* dict raises ValidationError when a required field is missing or None;  *)
(* keys the schema does not declare are ignored.                           *)
(***************************************************************************)
ValidationError == [raised |-> "ValidationError"]

\* The keys whose values are options in this model.
OptionKeys == {"department_id", "project_id", "project_name", "profit_center",
               "wbs", "account", "created_by", "submitted_by", "batch_id",
               "approved_by", "approved_at"}

AmountFields == MonthNameSet \cup {"total", "yearly_sum"}

Validated(data, required, optional) ==
    IF \E f \in required : f \notin DOMAIN data \/ (f \in OptionKeys /\ data[f] = None)
    THEN ValidationError
    ELSE Returned([f \in (required \cup optional) \cap DOMAIN data |-> data[f]])

ForecastRequired == {"department_id", "project_id", "project_name", "profit_center",
                     "wbs", "account", "id", "created_by", "created_at", "updated_at"}

\* schemas.Forecast(**yearly_dict)
Forecast(yearly_dict) == Validated(yearly_dict, ForecastRequired, AmountFields)

ForecastSnapshotRequired ==
    {"department_id", "project_id", "project_name", "profit_center", "wbs", "account",
     "id", "forecast_id", "year", "batch_id", "is_approved", "snapshot_date",
     "submitted_by"}

\* schemas.ForecastSnapshot(**yearly_dict)
ForecastSnapshot(yearly_dict) ==
    Validated(yearly_dict, ForecastSnapshotRequired,
              AmountFields \cup {"approved_by", "approved_at"})

\* The schema object of a converter result; a converter error propagates.
AsForecast(result) == IF result.raised = "" THEN Forecast(result.value) ELSE result

AsForecastSnapshot(result) ==
    IF result.raised = "" THEN ForecastSnapshot(result.value) ELSE result

(***************************************************************************)
(* The repositories.  The tables are sequences of rows in insertion       *)
(* order; a query returns the matching rows in that order unless it       *)
(* orders them.  The storage engine and its session are not part of the   *)
(* sources modelled here: an insert stores the rows it is given and a     *)
(* commit makes them visible, as the repository code expects.             *)
(***************************************************************************)
DEFAULT_YEAR == 2026

Projects == {1, 2}

Versions == {1, 2}

ProjectNames == <<"Alpha", "Beta", "Gamma">>

WbsCodes == <<"WBS-1", "WBS-2", "WBS-3">>

UserNames == <<"alice", "bob", "carol">>

\* forecast.model_dump() of a validated ForecastCreate / ForecastUpdate
\* payload: every declared field is present.  Version v of a payload has
\* amount v * m in month m, and a total the client made up.
ModelDump(project_id, v) ==
    [m \in MonthNameSet |-> Some(v * (CHOOSE i \in 1..12 : MONTH_NAMES[i] = m))]
    @@ [department_id |-> Some(1), project_id |-> Some(project_id),
        project_name |-> Some(ProjectNames[v]), profit_center |-> Some("PC"),
        wbs |-> Some(WbsCodes[v]), account |-> Some("5000"),
        total |-> Some(999), yearly_sum |-> Some(999)]

Payloads == {ModelDump(p, v) : p \in Projects, v \in Versions}

\* The payloads of the creates: the first version of each project's forecast;
\* the later versions arrive by updates.
CreatePayloads == {ModelDump(p, 1) : p \in Projects}

\* query(ForecastMonth).filter_by(project_id=..., year=...)
MonthsOf(project_id, year) ==
    SelectSeq(forecast_months,
              LAMBDA r : r.project_id = Some(project_id) /\ r.year = year)

MonthsWithout_all(project_id, year) ==
    SelectSeq(forecast_months, LAMBDA r : FALSE)

\* The rows left by query(ForecastMonth).filter_by(...).delete()
MonthsWithout(project_id, year) ==
    SelectSeq(forecast_months,
              LAMBDA r : ~(r.project_id = Some(project_id) /\ r.year = year))

NewMonths_eleven(yearly_data, year, created_by) ==
    LET monthly_data == yearly_forecast_to_monthly_records(yearly_data, year)
    IN  List([i \in 1..(Len(monthly_data) - 1) |->
                ForecastMonth(monthly_data[i], created_by)])

\* The twelve ForecastMonth objects built from a payload.
NewMonths(yearly_data, year, created_by) ==
    LET monthly_data == yearly_forecast_to_monthly_records(yearly_data, year)
    IN  List([i \in 1..Len(monthly_data) |->
                ForecastMonth(monthly_data[i], created_by)])

\* A header object with its monthly_snapshots relationship loaded.
Loaded(header) ==
    header @@ [monthly_snapshots |->
                  SelectSeq(snapshot_months,
                            LAMBDA r : r.snapshot_header_id = header.id)]

HeadersWithId(snapshot_id) ==
    SelectSeq(snapshot_headers, LAMBDA h : h.id = snapshot_id)

\* One more call of a repository method, while the budget of calls lasts.
Called == calls < MaxCalls /\ calls' = calls + 1

NoCall == [op |-> "none", target |-> <<>>, result |-> Returned(None)]

\* The database sessions that run calls side by side.
Sessions == {1, 2}

\* A session that runs no call; during is the position of the other
\* session when this session's call began.
IdleSession == [pc |-> "idle", op |-> "none", target |-> <<>>, payload |-> <<>>,
                created_by |-> None, during |-> "idle", result |-> Returned(None)]

DbInit ==
    /\ forecast_months = <<>>
    /\ snapshot_headers = <<>>
    /\ snapshot_months = <<>>
    /\ next_header_id = 1
    /\ last = NoCall
    /\ calls = 0
    /\ sessions = [s \in Sessions |-> IdleSession]

\* What ForecastRepository.get_by_id(forecast_id) returns in this state.
FetchById(forecast_id) ==
    LET decoded == decode_forecast_id(forecast_id)
        months  == SortedByMonth(MonthsOf(decoded.value[1], decoded.value[2]))
    IN  IF decoded.raised # "" THEN Returned(None)
        ELSE IF Len(months) = 0 THEN Returned(None)
        ELSE AsForecast(monthly_records_to_yearly_forecast(months))

\* ForecastRepository.get_by_id(forecast_id)
GetById(forecast_id) ==
    LET decoded == decode_forecast_id(forecast_id)
        months  == SortedByMonth(MonthsOf(decoded.value[1], decoded.value[2]))
    IN  /\ Called /\ last' = [op |-> "get_by_id", target |-> forecast_id,
                    result |-> IF decoded.raised # "" THEN Returned(None)
                               ELSE IF Len(months) = 0 THEN Returned(None)
                               ELSE AsForecast(monthly_records_to_yearly_forecast(months))]
        /\ UNCHANGED <<codec, conv, sessions, db>>

Create_unchecked(forecast, created_by) ==
    LET year       == DEFAULT_YEAR
        db_records == NewMonths(forecast, year, created_by)
    IN  /\ forecast_months' = forecast_months \o db_records
        /\ Called /\ last' = [op |-> "create", target |-> forecast.project_id,
                    payload |-> forecast,
                    result |-> AsForecast(
                                  monthly_records_to_yearly_forecast(db_records))]
        /\ UNCHANGED <<codec, conv, sessions, snapshot_headers, snapshot_months,
                       next_header_id>>

\* ForecastRepository.create(forecast, created_by); forecast is the dumped
\* payload.  The year is fixed.
Create(forecast, created_by) ==
    LET year       == DEFAULT_YEAR
        existing   == MonthsOf(forecast.project_id[1], year)
        db_records == NewMonths(forecast, year, created_by)
    IN  IF existing # <<>>
        THEN /\ Called /\ last' = [op |-> "create", target |-> forecast.project_id,
                         result |-> ValueError]
             /\ UNCHANGED <<codec, conv, sessions, db>>
        ELSE /\ forecast_months' = forecast_months \o db_records
             /\ Called /\ last' = [op |-> "create", target |-> forecast.project_id,
                         payload |-> forecast,
                         result |-> AsForecast(
                                       monthly_records_to_yearly_forecast(db_records))]
             /\ UNCHANGED <<codec, conv, sessions, snapshot_headers, snapshot_months,
                            next_header_id>>

Update_upsert(forecast_id, forecast) ==
    LET decoded == decode_forecast_id(forecast_id)
    IN  IF decoded.raised # ""
        THEN /\ Called /\ last' = [op |-> "update", target |-> forecast_id,
                         result |-> Returned(None)]
             /\ UNCHANGED <<codec, conv, sessions, db>>
        ELSE LET project_id      == decoded.value[1]
                 year            == decoded.value[2]
                 existing_months == MonthsOf(project_id, year)
                 created_by      == IF existing_months = <<>> THEN Some("Current User")
                                    ELSE existing_months[1].created_by
                 db_records      == NewMonths(forecast, year, created_by)
                 kept            == MonthsWithout(project_id, year)
             IN  /\ forecast_months' = kept \o db_records
                 /\ Called /\ last' = [op |-> "update", target |-> forecast_id,
                             payload |-> forecast,
                             result |-> AsForecast(
                                 monthly_records_to_yearly_forecast(db_records))]
                 /\ UNCHANGED <<codec, conv, sessions, snapshot_headers,
                                snapshot_months, next_header_id>>

\* ForecastRepository.update(forecast_id, forecast)
Update(forecast_id, forecast) ==
    LET decoded == decode_forecast_id(forecast_id)
    IN  IF decoded.raised # ""
        THEN /\ Called /\ last' = [op |-> "update", target |-> forecast_id,
                         result |-> Returned(None)]
             /\ UNCHANGED <<codec, conv, sessions, db>>
        ELSE LET project_id      == decoded.value[1]
                 year            == decoded.value[2]
                 existing_months == MonthsOf(project_id, year)
             IN  IF existing_months = <<>>
                 THEN /\ Called /\ last' = [op |-> "update", target |-> forecast_id,
                                  result |-> Returned(None)]
                      /\ UNCHANGED <<codec, conv, sessions, db>>
                 ELSE LET created_by == existing_months[1].created_by
                          db_records == NewMonths(forecast, year, created_by)
                          kept       == MonthsWithout(project_id, year)
                      IN  /\ forecast_months' = kept \o db_records
                          /\ Called /\ last' = [op |-> "update", target |-> forecast_id,
                                      payload |-> forecast,
                                      result |-> AsForecast(
                                          monthly_records_to_yearly_forecast(db_records))]
                          /\ UNCHANGED <<codec, conv, sessions, snapshot_headers,
                                         snapshot_months, next_header_id>>

Delete_cascading(forecast_id) ==
    LET decoded == decode_forecast_id(forecast_id)
    IN  IF decoded.raised # ""
        THEN /\ Called /\ last' = [op |-> "delete", target |-> forecast_id,
                         result |-> Returned(FALSE)]
             /\ UNCHANGED <<codec, conv, sessions, db>>
        ELSE LET project_id == decoded.value[1]
                 year       == decoded.value[2]
                 gone       == {snapshot_headers[i].id :
                                    i \in {j \in 1..Len(snapshot_headers) :
                                       /\ snapshot_headers[j].project_id = Some(project_id)
                                       /\ snapshot_headers[j].year = year}}
             IN  /\ forecast_months' = MonthsWithout(project_id, year)
                 /\ snapshot_headers' =
                       SelectSeq(snapshot_headers, LAMBDA h : h.id \notin gone)
                 /\ snapshot_months' =
                       SelectSeq(snapshot_months,
                                 LAMBDA r : r.snapshot_header_id \notin gone)
                 /\ Called /\ last' = [op |-> "delete", target |-> forecast_id,
                             result |-> Returned(Len(MonthsOf(project_id, year)) > 0)]
                 /\ UNCHANGED <<codec, conv, sessions, next_header_id>>

\* ForecastRepository.delete(forecast_id)
Delete(forecast_id) ==
    LET decoded == decode_forecast_id(forecast_id)
    IN  IF decoded.raised # ""
        THEN /\ Called /\ last' = [op |-> "delete", target |-> forecast_id,
                         result |-> Returned(FALSE)]
             /\ UNCHANGED <<codec, conv, sessions, db>>
        ELSE LET project_id == decoded.value[1]
                 year       == decoded.value[2]
             IN  /\ forecast_months' = MonthsWithout(project_id, year)
                 /\ Called /\ last' = [op |-> "delete", target |-> forecast_id,
                             result |-> Returned(Len(MonthsOf(project_id, year)) > 0)]
                 /\ UNCHANGED <<codec, conv, sessions, snapshot_headers, snapshot_months,
                                next_header_id>>

\* The ForecastSnapshotMonth copied from a live monthly row.
SnapshotMonth(header_id, month_record) ==
    [snapshot_header_id |-> header_id,
     month              |-> month_record.month,
     amount             |-> month_record.amount,
     project_name       |-> month_record.project_name,
     profit_center      |-> month_record.profit_center,
     wbs                |-> month_record.wbs,
     account            |-> month_record.account]

SnapshotHeader_approved(header_id, source_months, project_id, year, submitted_by, batch_id) ==
    [id            |-> header_id,
     line_id       |-> None,
     department_id |-> source_months[1].department_id,
     project_id    |-> Some(project_id),
     year          |-> year,
     batch_id      |-> Some(batch_id),
     is_approved   |-> TRUE,
     snapshot_date |-> header_id,
     submitted_by  |-> Some(submitted_by),
     approved_by   |-> Some(submitted_by),
     approved_at   |-> Some(header_id)]

\* The ForecastSnapshotHeader that create_from_forecast adds; line_id is
\* never assigned, and snapshot_date, the time of the insert, is the
\* ordinal of the insert.
SnapshotHeader(header_id, source_months, project_id, year, submitted_by, batch_id) ==
    [id            |-> header_id,
     line_id       |-> None,
     department_id |-> source_months[1].department_id,
     project_id    |-> Some(project_id),
     year          |-> year,
     batch_id      |-> Some(batch_id),
     is_approved   |-> FALSE,
     snapshot_date |-> header_id,
     submitted_by  |-> Some(submitted_by),
     approved_by   |-> None,
     approved_at   |-> None]

\* The error of a commit that a constraint of the tables rejects.
IntegrityError == [raised |-> "IntegrityError"]

UniqueSnapshotMonths_unchecked(copies) == TRUE

\* uq_snapshot_month: the rows that one header is to own have pairwise
\* distinct months.
UniqueSnapshotMonths(copies) ==
    \A i, j \in 1..Len(copies) : copies[i].month = copies[j].month => i = j

\* ForecastSnapshotRepository.create_from_forecast(project_id, year,
\* submitted_by, batch_id).  A commit that uq_snapshot_month rejects stores
\* nothing.  The rows are committed before the yearly view is built and
\* validated, so an error of that last step leaves them stored.
CreateFromForecast(project_id, year, submitted_by, batch_id) ==
    LET source_months == SortedByMonth(MonthsOf(project_id, year))
        duplicates    == ~UniqueSnapshotMonths(source_months)
    IN  IF source_months = <<>> \/ duplicates
        THEN /\ Called /\ last' = [op |-> "create_from_forecast", target |-> <<project_id, year>>,
                         result |-> IF source_months = <<>> THEN ValueError
                                    ELSE IntegrityError]
             /\ UNCHANGED <<codec, conv, sessions, db>>
        ELSE LET header == SnapshotHeader(next_header_id, source_months, project_id,
                                          year, submitted_by, batch_id)
                 copies == List([i \in 1..Len(source_months) |->
                               SnapshotMonth(next_header_id, source_months[i])])
             IN  /\ snapshot_headers' = Append(snapshot_headers, header)
                 /\ snapshot_months' = snapshot_months \o copies
                 /\ next_header_id' = next_header_id + 1
                 /\ Called /\ last' = [op |-> "create_from_forecast",
                             target |-> <<project_id, year>>,
                             result |-> AsForecastSnapshot(
                                 snapshot_header_to_yearly_view(
                                     header @@ [monthly_snapshots |-> copies]))]
                 /\ UNCHANGED <<codec, conv, sessions, forecast_months>>

\* ForecastSnapshotRepository.get_by_id(snapshot_id)
SnapshotGetById(snapshot_id) ==
    LET found == HeadersWithId(snapshot_id)
    IN  /\ Called /\ last' = [op |-> "snapshot_get_by_id", target |-> snapshot_id,
                    result |-> IF found = <<>> THEN Returned(None)
                               ELSE AsForecastSnapshot(
                                        snapshot_header_to_yearly_view(Loaded(found[1])))]
        /\ UNCHANGED <<codec, conv, sessions, db>>

\* ForecastSnapshotRepository.delete(snapshot_id): the header and, by the
\* relationship's cascade, its monthly rows.
SnapshotDelete(snapshot_id) ==
    LET found == HeadersWithId(snapshot_id)
    IN  IF found = <<>>
        THEN /\ Called /\ last' = [op |-> "snapshot_delete", target |-> snapshot_id,
                         result |-> Returned(FALSE)]
             /\ UNCHANGED <<codec, conv, sessions, db>>
        ELSE /\ snapshot_headers' =
                   SelectSeq(snapshot_headers, LAMBDA h : h.id # snapshot_id)
             /\ snapshot_months' =
                   SelectSeq(snapshot_months,
                             LAMBDA r : r.snapshot_header_id # snapshot_id)
             /\ Called /\ last' = [op |-> "snapshot_delete", target |-> snapshot_id,
                         result |-> Returned(TRUE)]
             /\ UNCHANGED <<codec, conv, sessions, forecast_months, next_header_id>>

Approve_resubmits(snapshot_id, approved_by) ==
    LET found == HeadersWithId(snapshot_id)
    IN  IF found = <<>>
        THEN /\ Called /\ last' = [op |-> "approve", target |-> snapshot_id,
                         approved_by |-> approved_by, result |-> Returned(None)]
             /\ UNCHANGED <<codec, conv, sessions, db>>
        ELSE LET header == [found[1] EXCEPT !.is_approved = TRUE,
                                            !.approved_by = Some(approved_by),
                                            !.approved_at = Some(calls + 1),
                                            !.submitted_by = Some(approved_by)]
             IN  /\ snapshot_headers' =
                       [i \in 1..Len(snapshot_headers) |->
                           IF snapshot_headers[i].id = snapshot_id
                           THEN header
                           ELSE snapshot_headers[i]]
                 /\ Called /\ last' = [op |-> "approve", target |-> snapshot_id,
                             approved_by |-> approved_by,
                             result |-> AsForecastSnapshot(
                                 snapshot_header_to_yearly_view(Loaded(header)))]
                 /\ UNCHANGED <<codec, conv, sessions, forecast_months, snapshot_months,
                                next_header_id>>

\* ForecastSnapshotRepository.approve(snapshot_id, approved_by).  The time of
\* the approval is the ordinal of the call.  The change is committed before
\* the yearly view is built and validated.
Approve(snapshot_id, approved_by) ==
    LET found == HeadersWithId(snapshot_id)
    IN  IF found = <<>>
        THEN /\ Called /\ last' = [op |-> "approve", target |-> snapshot_id,
                         approved_by |-> approved_by, result |-> Returned(None)]
             /\ UNCHANGED <<codec, conv, sessions, db>>
        ELSE LET header == [found[1] EXCEPT !.is_approved = TRUE,
                                            !.approved_by = Some(approved_by),
                                            !.approved_at = Some(calls + 1)]
             IN  /\ snapshot_headers' =
                       [i \in 1..Len(snapshot_headers) |->
                           IF snapshot_headers[i].id = snapshot_id
                           THEN [snapshot_headers[i] EXCEPT
                                    !.is_approved = TRUE,
                                    !.approved_by = Some(approved_by),
                                    !.approved_at = Some(calls + 1)]
                           ELSE snapshot_headers[i]]
                 /\ Called /\ last' = [op |-> "approve", target |-> snapshot_id,
                             approved_by |-> approved_by,
                             result |-> AsForecastSnapshot(
                                 snapshot_header_to_yearly_view(Loaded(header)))]
                 /\ UNCHANGED <<codec, conv, sessions, forecast_months, snapshot_months,
                                next_header_id>>

\* create_from_forecast as a function of the snapshot tables, for the calls
\* that create_bulk_snapshots makes: the tables after the call and what the
\* call returned or raised.
create_from_forecast(store, project_id, year, submitted_by, batch_id) ==
    LET source_months == SortedByMonth(MonthsOf(project_id, year))
    IN  IF source_months = <<>>
        THEN [store |-> store, result |-> ValueError]
        ELSE IF ~UniqueSnapshotMonths(source_months)
        THEN [store |-> store, result |-> IntegrityError]
        ELSE LET header == SnapshotHeader(store.next_id, source_months, project_id,
                                          year, submitted_by, batch_id)
                 copies == List([i \in 1..Len(source_months) |->
                               SnapshotMonth(store.next_id, source_months[i])])
             IN  [store  |-> [headers |-> Append(store.headers, header),
                              months  |-> store.months \o copies,
                              next_id |-> store.next_id + 1],
                  result |-> AsForecastSnapshot(
                                 snapshot_header_to_yearly_view(
                                     header @@ [monthly_snapshots |-> copies]))]

\* query(project_id, year).filter(department_id == ...).distinct()
UniqueForecasts(department_id) ==
    {<<forecast_months[i].project_id[1], forecast_months[i].year>> :
        i \in {j \in 1..Len(forecast_months) :
                  forecast_months[j].department_id = Some(department_id)}}

\* The orders in which .all() may return the distinct pairs.
OrdersOf(pairs) ==
    {order \in [1..Cardinality(pairs) -> pairs] :
        {order[i] : i \in 1..Cardinality(pairs)} = pairs}

RECURSIVE BulkLoop(_, _, _, _, _)
\* The loop of create_bulk_snapshots over the pairs from the n-th on: an
\* error of one call ends the loop and leaves what was committed before.
BulkLoop(unique_forecasts, n, store, snapshots, call) ==
    IF n > Len(unique_forecasts)
    THEN [store |-> store, result |-> Returned(snapshots)]
    ELSE LET made == create_from_forecast(store, unique_forecasts[n][1],
                                          unique_forecasts[n][2],
                                          call.submitted_by, call.batch_id)
         IN  IF made.result.raised # ""
             THEN made
             ELSE BulkLoop(unique_forecasts, n + 1, made.store,
                           Append(snapshots, made.result.value), call)

CreateBulkSnapshots_unchecked(department_id, submitted_by) ==
    LET batch_id == Format(Some(department_id)) \o <<"_">> \o IntToStr(calls + 1)
        pairs    == UniqueForecasts(department_id)
    IN  \E unique_forecasts \in OrdersOf(pairs) :
            LET done == BulkLoop(unique_forecasts, 1,
                                 [headers |-> snapshot_headers,
                                  months  |-> snapshot_months,
                                  next_id |-> next_header_id],
                                 <<>>,
                                 [submitted_by |-> submitted_by,
                                  batch_id     |-> batch_id])
            IN  /\ snapshot_headers' = done.store.headers
                /\ snapshot_months' = done.store.months
                /\ next_header_id' = done.store.next_id
                /\ Called /\ last' = [op |-> "create_bulk_snapshots",
                            target |-> department_id, result |-> done.result]
                /\ UNCHANGED <<codec, conv, sessions, forecast_months>>

\* ForecastSnapshotRepository.create_bulk_snapshots(department_id,
\* submitted_by).  The batch id is the department, then the time of the call
\* and a fresh random token, which together are the ordinal of the call.
CreateBulkSnapshots(department_id, submitted_by) ==
    LET batch_id == Format(Some(department_id)) \o <<"_">> \o IntToStr(calls + 1)
        pairs    == UniqueForecasts(department_id)
    IN  IF pairs = {}
        THEN /\ Called /\ last' = [op |-> "create_bulk_snapshots",
                         target |-> department_id, result |-> ValueError]
             /\ UNCHANGED <<codec, conv, sessions, db>>
        ELSE \E unique_forecasts \in OrdersOf(pairs) :
                LET done == BulkLoop(unique_forecasts, 1,
                                     [headers |-> snapshot_headers,
                                      months  |-> snapshot_months,
                                      next_id |-> next_header_id],
                                     <<>>,
                                     [submitted_by |-> submitted_by,
                                      batch_id     |-> batch_id])
                IN  /\ snapshot_headers' = done.store.headers
                    /\ snapshot_months' = done.store.months
                    /\ next_header_id' = done.store.next_id
                    /\ Called /\ last' = [op |-> "create_bulk_snapshots",
                                target |-> department_id, result |-> done.result]
                    /\ UNCHANGED <<codec, conv, sessions, forecast_months>>

DepartmentIds == {1, 2}

Approvers == {"approver1", "approver2"}

\* The forecast ids the callers present: those of the projects in the
\* default year, and a malformed one.
ForecastIds ==
    {encode_forecast_id(Some(p), DEFAULT_YEAR) : p \in Projects}
    \cup {<<"a", "b", "c">>}

\* The snapshot id the callers present: that of the first header, which is
\* absent before the first snapshot and after its deletion.
SnapshotIds == {1}

Next ==
    \/ \E f \in CreatePayloads : Create(f, Some("Current User"))
    \/ \E id \in ForecastIds, f \in Payloads : Update(id, f)
    \/ \E id \in ForecastIds : Delete(id)
    \/ \E id \in ForecastIds : GetById(id)
    \/ \E p \in Projects :
          CreateFromForecast(p, DEFAULT_YEAR, "submitter", <<"b", "1">>)
    \/ \E d \in DepartmentIds : CreateBulkSnapshots(d, "submitter")
    \/ \E id \in SnapshotIds, a \in Approvers : Approve(id, a)
    \/ \E id \in SnapshotIds : SnapshotGetById(id)
    \/ \E id \in SnapshotIds : SnapshotDelete(id)

(***************************************************************************)
(* Inputs of the codec: (project id, year) pairs to encode and decode,    *)
(* and raw tokens to decode.                                               *)
(***************************************************************************)
ProjectIds == 0..MaxProjectId

FourDigitYears == 1000..9999

Alphabet == {"0", "1", "7", "_", "a", "-", " "}

RECURSIVE TokensOfLen(_)
TokensOfLen(n) == IF n = 0 THEN {<<>>}
                  ELSE {Append(t, c) : t \in TokensOfLen(n - 1), c \in Alphabet}

Tokens == UNION {TokensOfLen(n) : n \in 0..MaxTokenLen}

ExampleTokens == { <<"a", "b", "c">>,
                   <<"1", "_", "2", "_", "3">>,
                   <<"1", "_", "a", "b", "c">>,
                   <<"1", "_", "2", "0", "2", "6">>,
                   <<"+", "1", "_", " ", "2", "0", "2", "6">> }

CodecIdle == [phase |-> "idle", kind |-> "none", project_id |-> 0, year |-> 0,
              token |-> <<>>, out |-> ValueError]

CodecInit ==
    \/ \E p \in ProjectIds, y \in FourDigitYears :
          codec = [phase |-> "start", kind |-> "pair", project_id |-> p, year |-> y,
                   token |-> <<>>, out |-> ValueError]
    \/ \E t \in Tokens \cup ExampleTokens :
          codec = [phase |-> "encoded", kind |-> "raw", project_id |-> 0, year |-> 0,
                   token |-> t, out |-> ValueError]

CodecEncode ==
    /\ codec.phase = "start"
    /\ codec' = [codec EXCEPT !.phase = "encoded",
                              !.token = encode_forecast_id(Some(codec.project_id), codec.year)]
    /\ UNCHANGED <<conv, db, last, calls, sessions>>

CodecDecode ==
    /\ codec.phase = "encoded"
    /\ codec' = [codec EXCEPT !.phase = "decoded",
                              !.out = decode_forecast_id(codec.token)]
    /\ UNCHANGED <<conv, db, last, calls, sessions>>

(***************************************************************************)
(* Inputs of the converter.  A yearly input gives month m the amount      *)
(* base + step * m, except at two chosen months, where the field may be   *)
(* absent or None; each doubly spelled descriptive field has its first    *)
(* and its second spelling absent, None, falsy (0 or "") or truthy.       *)
(***************************************************************************)
ConvIdle == [phase |-> "idle", kind |-> "none", yearly_data |-> <<>>, year |-> 0,
             records |-> <<>>, rows |-> <<>>, header |-> <<>>, out |-> ValueError]

MonthIndex(name) == CHOOSE m \in 1..12 : MONTH_NAMES[m] = name

FieldModes == {"absent", "none", "falsy", "truthy"}

FirstSpellings == {"department_id", "project_id", "project_name", "profit_center"}

SecondSpellings == {"departmentId", "projectId", "projectName", "profitCenter"}

IntKeys == {"department_id", "project_id", "departmentId", "projectId"}

\* The value a descriptive key holds in the given mode.
FieldValue(key, mode) ==
    IF mode = "none" THEN None
    ELSE IF key \in IntKeys
         THEN Some(IF mode = "falsy" THEN 0 ELSE IF key \in FirstSpellings THEN 7 ELSE 8)
         ELSE Some(IF mode = "falsy" THEN "" ELSE IF key \in FirstSpellings THEN "A" ELSE "B")

YearlyData(base, step, j, mj, k, mk, first, second, rest) ==
    LET mode(m) == IF m = j THEN mj ELSE IF m = k THEN mk ELSE "keep"
        months  == {MONTH_NAMES[m] : m \in {n \in 1..12 : mode(n) # "absent"}}
        keys    == months
                   \cup (IF first # "absent" THEN FirstSpellings ELSE {})
                   \cup (IF second # "absent" THEN SecondSpellings ELSE {})
                   \cup (IF rest # "absent" THEN {"wbs", "account"} ELSE {})
                   \cup {"total", "yearly_sum"}
    IN  [key \in keys |->
            IF key \in MonthNameSet
            THEN IF mode(MonthIndex(key)) = "none" THEN None
                 ELSE Some(base + step * MonthIndex(key))
            ELSE IF key \in FirstSpellings THEN FieldValue(key, first)
            ELSE IF key \in SecondSpellings THEN FieldValue(key, second)
            ELSE IF key \in {"wbs", "account"}
                 THEN (IF rest = "none" THEN None ELSE Some("W"))
            ELSE Some(0)]

VariedMonths == {1, 6, 12}

YearlyInputs ==
    {YearlyData(base, step, j, mj, k, mk, first, second, rest) :
        base \in 0..MaxAmount, step \in 0..1,
        j \in VariedMonths, mj \in {"keep", "absent", "none"},
        k \in VariedMonths, mk \in {"keep", "absent", "none"},
        first \in FieldModes, second \in FieldModes, rest \in {"absent", "none", "truthy"}}

\* A stored monthly row (ForecastMonth) and a stored snapshot row
\* (ForecastSnapshotMonth), as the folding operations read them.
MonthRow(month, amount, tag) ==
    [line_id |-> None, department_id |-> Some(1), project_id |-> Some(1),
     year |-> DEFAULT_YEAR, month |-> month, amount |-> amount,
     project_name |-> Some(ProjectNames[tag]), profit_center |-> Some("PC"),
     wbs |-> Some("W"), account |-> Some("5000"),
     created_by |-> Some(UserNames[tag]), created_at |-> "today",
     updated_at |-> "today"]

SnapshotRow(month, amount, tag) ==
    [snapshot_header_id |-> 1, month |-> month, amount |-> amount,
     project_name |-> Some(ProjectNames[tag]), profit_center |-> Some("PC"),
     wbs |-> Some("W"), account |-> Some("5000")]

RowMonths == {0, 1, 12, 13}

RowAmounts == {None} \cup {Some(a) : a \in 1..MaxAmount}

RECURSIVE SeqsUpTo(_, _)
SeqsUpTo(S, n) == IF n = 0 THEN {<<>>}
                  ELSE LET shorter == SeqsUpTo(S, n - 1)
                       IN  shorter \cup {Append(s, x) : s \in shorter, x \in S}

ExampleAmounts == <<100, 150, 200, 180, 160, 140, 120, 130, 140, 150, 160, 170>>

MonthRowInputs ==
    SeqsUpTo({MonthRow(m, a, t) : m \in RowMonths, a \in RowAmounts, t \in 1..2},
             MaxRecords)
    \cup { <<MonthRow(1, Some(500), 1)>>,
           [m \in 1..12 |-> MonthRow(13 - m, Some(ExampleAmounts[13 - m]), 1)] }

SnapshotRowInputs ==
    SeqsUpTo({SnapshotRow(m, a, t) : m \in RowMonths, a \in RowAmounts, t \in 1..2},
             MaxRecords)
    \cup { <<SnapshotRow(1, Some(500), 1)>>,
           [m \in 1..12 |-> SnapshotRow(13 - m, Some(ExampleAmounts[13 - m]), 1)] }

\* A snapshot header object with its monthly_snapshots relationship.
HeaderObject(rows) ==
    [id |-> 1, line_id |-> None, department_id |-> Some(1), project_id |-> Some(1),
     year |-> DEFAULT_YEAR, batch_id |-> Some("batch"), is_approved |-> FALSE,
     snapshot_date |-> "now", submitted_by |-> Some("submitter"),
     approved_by |-> None, approved_at |-> None, monthly_snapshots |-> rows]

\* The header of another project and year, after its approval.
ApprovedHeaderObject(rows) ==
    [HeaderObject(rows) EXCEPT !.id = 2, !.department_id = Some(2),
                               !.project_id = Some(2), !.year = DEFAULT_YEAR + 1,
                               !.is_approved = TRUE,
                               !.approved_by = Some("approver1"),
                               !.approved_at = Some("later")]

ConvInit ==
    \/ \E d \in YearlyInputs, y \in {DEFAULT_YEAR, DEFAULT_YEAR + 1} :
          conv = [ConvIdle EXCEPT !.phase = "start", !.kind = "yearly",
                                  !.yearly_data = d, !.year = y]
    \/ \E rows \in MonthRowInputs :
          conv = [ConvIdle EXCEPT !.phase = "rows", !.kind = "monthly", !.rows = rows]
    \/ \E rows \in SnapshotRowInputs :
          conv = [ConvIdle EXCEPT !.phase = "rows", !.kind = "snapshot",
                                  !.header = HeaderObject(rows)]
    \/ \E rows \in SnapshotRowInputs :
          conv = [ConvIdle EXCEPT !.phase = "rows", !.kind = "snapshot",
                                  !.header = ApprovedHeaderObject(rows)]
    \/ conv = [ConvIdle EXCEPT !.phase = "rows", !.kind = "snapshot",
                               !.header = [id |-> 1]]

\* Expansion, followed by the construction of the twelve ForecastMonth
\* objects as ForecastRepository.create performs it.
ConvExpand ==
    /\ conv.phase = "start"
    /\ LET records == yearly_forecast_to_monthly_records(conv.yearly_data, conv.year)
       IN  conv' = [conv EXCEPT !.phase = "rows", !.records = records,
                       !.rows = [i \in 1..Len(records) |->
                                    ForecastMonth(records[i], Some("Current User"))]]
    /\ UNCHANGED <<codec, db, last, calls, sessions>>

ConvFold ==
    /\ conv.phase = "rows"
    /\ conv.kind \in {"yearly", "monthly"}
    /\ conv' = [conv EXCEPT !.phase = "folded",
                            !.out = monthly_records_to_yearly_forecast(conv.rows)]
    /\ UNCHANGED <<codec, db, last, calls, sessions>>

ConvSnapshotView ==
    /\ conv.phase = "rows"
    /\ conv.kind = "snapshot"
    /\ conv' = [conv EXCEPT !.phase = "folded",
                            !.out = snapshot_header_to_yearly_view(conv.header)]
    /\ UNCHANGED <<codec, db, last, calls, sessions>>

ConvNext == ConvExpand \/ ConvFold \/ ConvSnapshotView

ConvOnlyInit == ConvInit /\ codec = CodecIdle /\ DbInit

SpecConv == ConvOnlyInit /\ [][ConvNext]_vars


CodecNext == CodecEncode \/ CodecDecode

CodecOnlyInit == CodecInit /\ conv = ConvIdle /\ DbInit

SpecCodec == CodecOnlyInit /\ [][CodecNext]_vars

\* The repositories alone.
Init == DbInit /\ codec = CodecIdle /\ conv = ConvIdle

Spec == Init /\ [][Next]_vars

(***************************************************************************)
(* Calls that run side by side.  Each call has a database session of its   *)
(* own and takes one step for each statement that it sends; the steps of   *)
(* two calls interleave, and a statement reads and changes the rows as the *)
(* statements before it left them.                                         *)
(***************************************************************************)
Other(s) == CHOOSE t \in Sessions : t # s

\* Session s, which runs no call, starts the given one.
Begins(s, call) ==
    /\ sessions[s].pc = "idle"
    /\ Called
    /\ sessions' = [sessions EXCEPT
                       ![s] = [call EXCEPT !.during = sessions[Other(s)].pc]]

\* The call of session s returns or raises.
Ends(s, result) ==
    sessions' = [sessions EXCEPT ![s].pc = "idle", ![s].result = result]

\* ForecastRepository.create(forecast, created_by) is called.
BeginCreate(s, forecast) ==
    /\ Begins(s, [IdleSession EXCEPT !.op = "create", !.pc = "check",
                                     !.payload = forecast])
    /\ UNCHANGED <<codec, conv, db, last>>

\* create: the query for an existing row of the project and year.
CreateCheck(s) ==
    /\ sessions[s].pc = "check"
    /\ LET existing == MonthsOf(sessions[s].payload.project_id[1], DEFAULT_YEAR)
       IN  IF existing # <<>>
           THEN Ends(s, ValueError)
           ELSE sessions' = [sessions EXCEPT ![s].pc = "insert"]
    /\ UNCHANGED <<codec, conv, db, last, calls>>

\* create: add_all and commit of the twelve rows, and the return.
CreateInsert(s) ==
    /\ sessions[s].pc = "insert"
    /\ LET db_records == NewMonths(sessions[s].payload, DEFAULT_YEAR,
                                   Some("Current User"))
       IN  /\ forecast_months' = forecast_months \o db_records
           /\ Ends(s, AsForecast(monthly_records_to_yearly_forecast(db_records)))
    /\ UNCHANGED <<codec, conv, snapshot_headers, snapshot_months,
                   next_header_id, last, calls>>

\* ForecastRepository.update(forecast_id, forecast) is called.
BeginUpdate(s, forecast_id, forecast) ==
    /\ Begins(s, [IdleSession EXCEPT !.op = "update", !.pc = "load",
                                     !.target = forecast_id,
                                     !.payload = forecast])
    /\ UNCHANGED <<codec, conv, db, last>>

\* update: the decoding of the id and the query for the existing rows.
UpdateLoad(s) ==
    /\ sessions[s].pc = "load"
    /\ LET decoded == decode_forecast_id(sessions[s].target)
           existing_months == MonthsOf(decoded.value[1], decoded.value[2])
       IN  IF decoded.raised # "" THEN Ends(s, Returned(None))
           ELSE IF existing_months = <<>> THEN Ends(s, Returned(None))
           ELSE sessions' = [sessions EXCEPT
                                ![s].pc = "delete",
                                ![s].created_by = existing_months[1].created_by]
    /\ UNCHANGED <<codec, conv, db, last, calls>>

UpdateDelete_keeps(s) ==
    /\ sessions[s].pc = "delete"
    /\ sessions' = [sessions EXCEPT ![s].pc = "reinsert"]
    /\ UNCHANGED <<codec, conv, db, last, calls>>

\* update: query(...).filter_by(project_id, year).delete()
UpdateDelete(s) ==
    /\ sessions[s].pc = "delete"
    /\ LET decoded == decode_forecast_id(sessions[s].target)
       IN  forecast_months' = MonthsWithout(decoded.value[1], decoded.value[2])
    /\ sessions' = [sessions EXCEPT ![s].pc = "reinsert"]
    /\ UNCHANGED <<codec, conv, snapshot_headers, snapshot_months,
                   next_header_id, last, calls>>

\* update: add_all and commit of the twelve new rows, and the return.
UpdateInsert(s) ==
    /\ sessions[s].pc = "reinsert"
    /\ LET decoded    == decode_forecast_id(sessions[s].target)
           db_records == NewMonths(sessions[s].payload, decoded.value[2],
                                   sessions[s].created_by)
       IN  /\ forecast_months' = forecast_months \o db_records
           /\ Ends(s, AsForecast(monthly_records_to_yearly_forecast(db_records)))
    /\ UNCHANGED <<codec, conv, snapshot_headers, snapshot_months,
                   next_header_id, last, calls>>

\* ForecastRepository.get_by_id(forecast_id): one query, and the return.
Fetch(s, forecast_id) ==
    /\ Begins(s, [IdleSession EXCEPT !.op = "get_by_id",
                                     !.target = forecast_id,
                                     !.result = FetchById(forecast_id)])
    /\ UNCHANGED <<codec, conv, db, last>>

\* The calls that run side by side address one project: its creation, its
\* update to the second version, and fetches and updates by its id and by
\* a malformed one.
SessionProject == CHOOSE p \in Projects : \A q \in Projects : p <= q

SessionForecastIds ==
    {encode_forecast_id(Some(SessionProject), DEFAULT_YEAR), <<"a", "b", "c">>}

SessionsNext ==
    \/ \E s \in Sessions : BeginCreate(s, ModelDump(SessionProject, 1))
    \/ \E s \in Sessions : CreateCheck(s)
    \/ \E s \in Sessions : CreateInsert(s)
    \/ \E s \in Sessions, id \in SessionForecastIds :
          BeginUpdate(s, id, ModelDump(SessionProject, 2))
    \/ \E s \in Sessions : UpdateLoad(s)
    \/ \E s \in Sessions : UpdateDelete(s)
    \/ \E s \in Sessions : UpdateInsert(s)
    \/ \E s \in Sessions, id \in SessionForecastIds : Fetch(s, id)

SessionsInit == DbInit /\ codec = CodecIdle /\ conv = ConvIdle

SpecSessions == SessionsInit /\ [][SessionsNext]_vars

(***************************************************************************)
(* Claims about the codec, checked under SpecCodec.                        *)
(***************************************************************************)

\* C1: identifier round trip: decoding the token encoded from a non-negative
\* project id p and a 4-digit year y returns exactly (p, y).
C1_RoundTrip ==
    (codec.phase = "decoded" /\ codec.kind = "pair")
        => codec.out = Returned(<<codec.project_id, codec.year>>)

C1_Witness ==
    /\ codec.phase = "decoded" /\ codec.kind = "pair"
    /\ codec.project_id = 10 /\ codec.year = 9999
    /\ codec.token = <<"1", "0", "_", "9", "9", "9", "9">>
    /\ codec.out = Returned(<<10, 9999>>)

\* The number of delimiters in a token.
Underscores(t) == Cardinality({i \in 1..Len(t) : t[i] = "_"})

\* A part is an integer literal: optional blanks around an optional sign
\* and one or more decimal digits.
IsIntLiteral(s) ==
    \E a, b \in 0..Len(s) :
       /\ a + b < Len(s)
       /\ \A i \in 1..a : s[i] = " "
       /\ \A i \in (Len(s) - b + 1)..Len(s) : s[i] = " "
       /\ LET body == SubSeq(s, a + 1, Len(s) - b)
              digs == IF Head(body) \in {"+", "-"} THEN Tail(body) ELSE body
          IN  digs # <<>> /\ \A i \in 1..Len(digs) : IsDigit(digs[i])

\* C2: decoding fails with ValueError for every token that does not split on
\* '_' into exactly two parts, and for every token with a part that is not
\* an integer literal; "abc", "1_2_3" and "1_abc" are such tokens.
C2_DecodeFails ==
    codec.phase = "decoded" =>
        /\ Underscores(codec.token) # 1 => codec.out = ValueError
        /\ (\E i \in 1..Len(Split(codec.token)) : ~IsIntLiteral(Split(codec.token)[i]))
              => codec.out = ValueError
        /\ codec.token \in { <<"a", "b", "c">>, <<"1", "_", "2", "_", "3">>,
                             <<"1", "_", "a", "b", "c">> }
              => codec.out = ValueError

C2_Witness ==
    /\ codec.phase = "decoded"
    /\ codec.token = <<"1", "_", "2", "_", "3">>
    /\ codec.out = ValueError
(***************************************************************************)
(* Claims about the converter, checked under SpecConv.                     *)
(***************************************************************************)
\* The amount a yearly input carries for month m, if it carries one.
HasAmount(d, m) == MONTH_NAMES[m] \in DOMAIN d /\ d[MONTH_NAMES[m]] # None

InputAmount(d, m) == IF HasAmount(d, m) THEN d[MONTH_NAMES[m]][1] ELSE 0

RECURSIVE SumOfMonths(_, _)
\* The sum of f[jan] .. f[the n-th month name].
SumOfMonths(f, n) == IF n = 0 THEN 0 ELSE SumOfMonths(f, n - 1) + f[MONTH_NAMES[n]]

\* The rows a folding operation was given.
FoldInput == IF conv.kind = "snapshot"
             THEN Get(conv.header, "monthly_snapshots", <<>>)
             ELSE conv.rows

Folded == conv.phase = "folded" /\ conv.out.raised = ""

\* C3: expand/fold round trip: for a yearly input that carries all twelve
\* amounts, folding the twelve expanded records gives back the same twelve
\* amounts, and total and yearly_sum both equal their sum.
C3_ExpandFoldRoundTrip ==
    (conv.kind = "yearly" /\ conv.phase = "folded"
        /\ \A m \in 1..12 : HasAmount(conv.yearly_data, m))
    => /\ conv.out.raised = ""
       /\ \A m \in 1..12 :
             conv.out.value[MONTH_NAMES[m]] = conv.yearly_data[MONTH_NAMES[m]][1]
       /\ conv.out.value.total =
             SumOfMonths([n \in MonthNameSet |-> conv.yearly_data[n][1]], 12)
       /\ conv.out.value.yearly_sum = conv.out.value.total

C3_Witness ==
    /\ conv.kind = "yearly" /\ conv.phase = "folded"
    /\ \A m \in 1..12 : HasAmount(conv.yearly_data, m)
    /\ \A m \in 1..12 : conv.yearly_data[MONTH_NAMES[m]] = Some(1 + m)
    /\ conv.out.raised = ""
    /\ conv.out.value.jan = 2 /\ conv.out.value.dec = 13
    /\ conv.out.value.total = 90

\* C4 as claimed: for every non-empty collection of monthly records, the
\* folded total equals yearly_sum and both equal the sum of the twelve month
\* fields of the output.
C4_TotalIsSumOfFields_AnyInput ==
    (Folded /\ conv.kind \in {"monthly", "snapshot"} /\ FoldInput # <<>>)
    => /\ conv.out.value.total = conv.out.value.yearly_sum
       /\ conv.out.value.total = SumOfMonths(conv.out.value, 12)

DistinctMonths(rows) ==
    \A i, j \in 1..Len(rows) : rows[i].month = rows[j].month => i = j

\* C4 as amended: for every non-empty collection of monthly records with at
\* most one record per month, the folded total equals yearly_sum and both
\* equal the sum of the twelve month fields of the output; for any non-empty
\* collection total equals yearly_sum.
C4_TotalIsSumOfFields ==
    (Folded /\ conv.kind \in {"monthly", "snapshot"} /\ FoldInput # <<>>)
    => /\ conv.out.value.total = conv.out.value.yearly_sum
       /\ DistinctMonths(FoldInput)
             => conv.out.value.total = SumOfMonths(conv.out.value, 12)

C4_Witness ==
    /\ Folded /\ conv.kind = "monthly"
    /\ Len(conv.rows) = 12 /\ DistinctMonths(conv.rows)
    /\ \A i \in 1..12 : conv.out.value[MONTH_NAMES[i]] = ExampleAmounts[i]
    /\ conv.out.value.total = 1800 /\ conv.out.value.yearly_sum = 1800

\* C5: folding is total over the month names: the output of a non-empty
\* input has all twelve month fields, and a month with no input record is 0;
\* a single record of month 1 and amount 500 gives jan = 500, feb..dec = 0
\* and total = 500.
C5_MissingMonthsAreZero ==
    (conv.phase = "folded" /\ FoldInput # <<>>)
    => /\ conv.out.raised = ""
       /\ MonthNameSet \subseteq DOMAIN conv.out.value
       /\ \A m \in 1..12 :
             (\A i \in 1..Len(FoldInput) : FoldInput[i].month # m)
                => conv.out.value[MONTH_NAMES[m]] = 0
       /\ (Len(FoldInput) = 1 /\ FoldInput[1].month = 1
              /\ FoldInput[1].amount = Some(500))
          => /\ conv.out.value.jan = 500
             /\ \A m \in 2..12 : conv.out.value[MONTH_NAMES[m]] = 0
             /\ conv.out.value.total = 500

C5_Witness ==
    /\ Folded /\ conv.kind = "monthly"
    /\ conv.rows = <<MonthRow(1, Some(500), 1)>>
    /\ conv.out.value.jan = 500 /\ conv.out.value.feb = 0 /\ conv.out.value.dec = 0
    /\ conv.out.value.total = 500

\* C6: both folding operations fail with ValueError and return no yearly view
\* when there is no source record: an empty collection, or a header whose
\* monthly_snapshots is empty or missing.
C6_EmptyInputFails ==
    (conv.phase = "folded" /\ conv.kind \in {"monthly", "snapshot"} /\ FoldInput = <<>>)
    => conv.out = ValueError

C6_Witness ==
    /\ conv.phase = "folded" /\ conv.kind = "monthly"
    /\ conv.rows = <<>>
    /\ conv.out = ValueError

\* C7: expansion returns exactly twelve records; the k-th has month k, the
\* given year, and the amount of the k-th month field, or 0 when the field
\* is missing or None.
C7_TwelveRecords ==
    (conv.kind = "yearly" /\ conv.phase \in {"rows", "folded"})
    => /\ Len(conv.records) = 12
       /\ \A k \in 1..12 :
             /\ conv.records[k].month = k
             /\ conv.records[k].year = conv.year
             /\ conv.records[k].amount = Some(InputAmount(conv.yearly_data, k))

C7_Witness ==
    /\ conv.kind = "yearly" /\ conv.phase = "rows"
    /\ "jan" \notin DOMAIN conv.yearly_data
    /\ "dec" \in DOMAIN conv.yearly_data /\ conv.yearly_data.dec = None
    /\ conv.yearly_data.jun = Some(7)
    /\ conv.year = DEFAULT_YEAR + 1
    /\ Len(conv.records) = 12
    /\ conv.records[1].amount = Some(0) /\ conv.records[12].amount = Some(0)
    /\ conv.records[6].amount = Some(7) /\ conv.records[6].year = DEFAULT_YEAR + 1

\* The first spelling's value when it is present and not None, else the
\* second spelling's value (None when that is absent too).
FirstNonNull(d, first, second) ==
    IF first \in DOMAIN d /\ d[first] # None THEN d[first] ELSE Get(d, second, None)

\* C8 as claimed: the descriptive fields are the same on all twelve records,
\* and a doubly spelled field has the value of its first spelling whenever
\* that is non-null, the second spelling being used only when the first is
\* null or absent.
C8_FirstNonNullSpellingWins ==
    (conv.kind = "yearly" /\ conv.phase \in {"rows", "folded"})
    => \A k \in 1..Len(conv.records) :
          LET r == conv.records[k]
              d == conv.yearly_data
          IN  /\ \A f \in {"department_id", "project_id", "project_name",
                           "profit_center", "wbs", "account"} :
                    r[f] = conv.records[1][f]
              /\ r.department_id = FirstNonNull(d, "department_id", "departmentId")
              /\ r.project_id = FirstNonNull(d, "project_id", "projectId")
              /\ r.project_name = FirstNonNull(d, "project_name", "projectName")
              /\ r.profit_center = FirstNonNull(d, "profit_center", "profitCenter")

(***************************************************************************)
(* Claims about the repositories.                                          *)
(***************************************************************************)
\* What a fetch of each snapshot stored in the given tables is built from:
\* the yearly view of the header with its monthly rows, in the order of the
\* headers.
SnapshotViewsOf(headers, months) ==
    [i \in 1..Len(headers) |->
        snapshot_header_to_yearly_view(
            headers[i] @@ [monthly_snapshots |->
                SelectSeq(months, LAMBDA r : r.snapshot_header_id = headers[i].id)])]

SnapshotViews == SnapshotViewsOf(snapshot_headers, snapshot_months)

\* The yearly view of the live forecast of a project and year.
ForecastView(project_id, year) ==
    monthly_records_to_yearly_forecast(SortedByMonth(MonthsOf(project_id, year)))

C10_SnapshotCopiesForecast ==
    (last.op = "create_from_forecast" /\ last.result # ValueError) =>
        LET project_id == last.target[1]
            year       == last.target[2]
            live       == SortedByMonth(MonthsOf(project_id, year))
            header     == snapshot_headers[Len(snapshot_headers)]
            copies     == Loaded(header).monthly_snapshots
            view       == ForecastView(project_id, year)
        IN  /\ Len(copies) = Len(live)
            /\ \A i \in 1..Len(live) :
                  /\ copies[i].month = live[i].month
                  /\ copies[i].amount = live[i].amount
                  /\ copies[i].project_name = live[i].project_name
                  /\ copies[i].profit_center = live[i].profit_center
                  /\ copies[i].wbs = live[i].wbs
                  /\ copies[i].account = live[i].account
            /\ last.result.raised = ""
            /\ AmountFields \subseteq DOMAIN last.result.value
            /\ \A f \in AmountFields : last.result.value[f] = view.value[f]

\* The part of C10 that is about the stored rows alone.
SnapshotRowsCopied ==
    (last.op = "create_from_forecast" /\ last.result # ValueError) =>
        LET live   == SortedByMonth(MonthsOf(last.target[1], last.target[2]))
            copies == Loaded(snapshot_headers[Len(snapshot_headers)]).monthly_snapshots
        IN  /\ Len(copies) = Len(live)
            /\ \A i \in 1..Len(live) :
                  /\ copies[i].month = live[i].month
                  /\ copies[i].amount = live[i].amount
                  /\ copies[i].project_name = live[i].project_name
                  /\ copies[i].wbs = live[i].wbs

(***************************************************************************)
(* Claims about the approval of snapshot headers.                          *)
(***************************************************************************)
HeaderIds(headers) == {headers[i].id : i \in 1..Len(headers)}

HeaderOf(headers, id) == headers[CHOOSE i \in 1..Len(headers) : headers[i].id = id]

Pending(header) ==
    /\ header.is_approved = FALSE
    /\ header.approved_by = None
    /\ header.approved_at = None

Approval(header) == <<header.is_approved, header.approved_by, header.approved_at>>

\* C11: a header that a step adds is Pending, and a Pending header stays
\* Pending over every step that is not an approve of its id.
C11_NewHeadersPending ==
    [][\A id \in HeaderIds(snapshot_headers') :
          IF id \notin HeaderIds(snapshot_headers)
          THEN Pending(HeaderOf(snapshot_headers', id))
          ELSE (/\ Pending(HeaderOf(snapshot_headers, id))
                /\ ~(last'.op = "approve" /\ last'.target = id))
               => Pending(HeaderOf(snapshot_headers', id))]_vars

\* Two headers are stored; the last call approved the first, and the
\* second is still Pending.
C11_Witness ==
    /\ Len(snapshot_headers) = 2
    /\ last.op = "approve"
    /\ snapshot_headers[1].is_approved
    /\ Pending(snapshot_headers[2])

\* C12: an approve of an existing Pending header leaves it stored as
\* approved by the given approver with its approval time set, and returns
\* the snapshot with is_approved true and that approver.
C12_ApproveReturnsApproved ==
    [][(/\ last'.op = "approve"
        /\ last'.target \in HeaderIds(snapshot_headers)
        /\ Pending(HeaderOf(snapshot_headers, last'.target)))
       => /\ last'.target \in HeaderIds(snapshot_headers')
          /\ LET header == HeaderOf(snapshot_headers', last'.target)
             IN  /\ header.is_approved = TRUE
                 /\ header.approved_by = Some(last'.approved_by)
                 /\ header.approved_at # None
          /\ last'.result.raised = ""
          /\ last'.result.value # None
          /\ last'.result.value.is_approved = TRUE
          /\ last'.result.value.approved_by = Some(last'.approved_by)]_vars

\* The part of C12 that is about the stored header alone, with its last
\* sentence: a header becomes approved only by an approve of its id.
ApproveStoresApproval ==
    [][/\ (/\ last'.op = "approve"
           /\ last'.target \in HeaderIds(snapshot_headers))
          => /\ last'.target \in HeaderIds(snapshot_headers')
             /\ Approval(HeaderOf(snapshot_headers', last'.target))
                   = <<TRUE, Some(last'.approved_by), Some(calls')>>
       /\ \A id \in HeaderIds(snapshot_headers') :
             (/\ HeaderOf(snapshot_headers', id).is_approved
              /\ id \in HeaderIds(snapshot_headers)
                    => ~HeaderOf(snapshot_headers, id).is_approved)
             => (last'.op = "approve" /\ last'.target = id)]_vars

\* C13: over every step, a header that is approved keeps its is_approved,
\* approved_by and approved_at for as long as it is stored.
C13_ApprovalOnlyOnce ==
    [][\A id \in HeaderIds(snapshot_headers) \cap HeaderIds(snapshot_headers') :
          HeaderOf(snapshot_headers, id).is_approved
          => Approval(HeaderOf(snapshot_headers', id))
                = Approval(HeaderOf(snapshot_headers, id))]_vars

(***************************************************************************)
(* Claims about the errors of the repositories.                            *)
(***************************************************************************)
\* The forecast id decodes to a grouping key that has monthly rows.
HasRows(forecast_id) ==
    LET decoded == decode_forecast_id(forecast_id)
    IN  /\ decoded.raised = ""
        /\ MonthsOf(decoded.value[1], decoded.value[2]) # <<>>

\* The step left the three tables and the id counter as they were.
StoreUnchanged ==
    /\ forecast_months' = forecast_months
    /\ snapshot_headers' = snapshot_headers
    /\ snapshot_months' = snapshot_months
    /\ next_header_id' = next_header_id

\* C14: a call that addresses a forecast id without monthly rows, a
\* snapshot id without header, or takes a snapshot of a grouping key without
\* live rows, reports not found (None, False, or ValueError for the
\* snapshot creation) and leaves the store unchanged.
C14_NotFoundChangesNothing ==
    [][/\ (last'.op \in {"get_by_id", "update"} /\ ~HasRows(last'.target))
          => (StoreUnchanged /\ last'.result = Returned(None))
       /\ (last'.op = "delete" /\ ~HasRows(last'.target))
          => (StoreUnchanged /\ last'.result = Returned(FALSE))
       /\ (/\ last'.op \in {"snapshot_get_by_id", "approve"}
           /\ last'.target \notin HeaderIds(snapshot_headers))
          => (StoreUnchanged /\ last'.result = Returned(None))
       /\ (/\ last'.op = "snapshot_delete"
           /\ last'.target \notin HeaderIds(snapshot_headers))
          => (StoreUnchanged /\ last'.result = Returned(FALSE))
       /\ (/\ last'.op = "create_from_forecast"
           /\ MonthsOf(last'.target[1], last'.target[2]) = <<>>)
          => (StoreUnchanged /\ last'.result = ValueError)]_vars

\* The last call was an update of a well-formed forecast id without rows,
\* while another forecast has its twelve rows, and it returned None.
C14_Witness ==
    /\ last.op = "update"
    /\ decode_forecast_id(last.target).raised = ""
    /\ last.result = Returned(None)
    /\ Len(forecast_months) = 12

(***************************************************************************)
(* Claims about the bulk creation of snapshots.                            *)
(***************************************************************************)
\* C15: a bulk creation for a department whose live rows cover N >= 1
\* grouping keys adds exactly N headers, one for each key, all with one
\* batch id that no header stored before carries.
C15_BulkCreatesOnePerKey ==
    [][(/\ last'.op = "create_bulk_snapshots"
        /\ UniqueForecasts(last'.target) # {})
       => LET new == HeaderIds(snapshot_headers') \ HeaderIds(snapshot_headers)
              old == HeaderIds(snapshot_headers)
          IN  /\ old \subseteq HeaderIds(snapshot_headers')
              /\ Cardinality(new) = Cardinality(UniqueForecasts(last'.target))
              /\ \A pair \in UniqueForecasts(last'.target) :
                    \E id \in new :
                       /\ HeaderOf(snapshot_headers', id).project_id = Some(pair[1])
                       /\ HeaderOf(snapshot_headers', id).year = pair[2]
              /\ \A a \in new, b \in new :
                    HeaderOf(snapshot_headers', a).batch_id
                       = HeaderOf(snapshot_headers', b).batch_id
              /\ \A a \in new, b \in old :
                    HeaderOf(snapshot_headers', a).batch_id
                       # HeaderOf(snapshot_headers, b).batch_id]_vars

\* C16: a bulk creation for a department without live rows raises
\* ValueError and leaves the store unchanged.
C16_BulkWithoutForecastsFails ==
    [][(/\ last'.op = "create_bulk_snapshots"
        /\ UniqueForecasts(last'.target) = {})
       => (StoreUnchanged /\ last'.result = ValueError)]_vars

\* The last call was a bulk creation for department 2, which has no rows
\* while department 1 has, and it raised ValueError.
C16_Witness ==
    /\ last.op = "create_bulk_snapshots"
    /\ last.target = 2
    /\ last.result = ValueError
    /\ forecast_months # <<>>
    /\ snapshot_headers = <<>>

(***************************************************************************)
(* Claims about create, update and delete of forecasts.                    *)
(***************************************************************************)
\* A get_by_id call returns what FetchById says.
FetchByIdIsGetById == last.op = "get_by_id" => last.result = FetchById(last.target)

\* The fetched forecast has the twelve month amounts of the payload, and
\* total and yearly_sum equal to their sum.
HasAmountsOf(fetched, payload) ==
    /\ fetched.raised = ""
    /\ fetched.value # None
    /\ \A name \in MonthNameSet : fetched.value[name] = payload[name][1]
    /\ fetched.value.total = SumOfMonths(fetched.value, 12)
    /\ fetched.value.yearly_sum = fetched.value.total

\* C17: a create for a project that has rows in the year of the creates
\* raises ValueError and leaves the store unchanged.
C17_DuplicateCreateFails ==
    [][(/\ last'.op = "create"
        /\ MonthsOf(last'.target[1], DEFAULT_YEAR) # <<>>)
       => (StoreUnchanged /\ last'.result = ValueError)]_vars

\* The last call was a create that raised ValueError, and the twelve rows
\* of the first create are stored.
C17_Witness ==
    /\ last.op = "create"
    /\ last.result = ValueError
    /\ Len(forecast_months) = 12

C19_OneRowPerMonth ==
    \A i, j \in 1..Len(forecast_months) :
        (/\ forecast_months[i].project_id = forecast_months[j].project_id
         /\ forecast_months[i].year = forecast_months[j].year
         /\ forecast_months[i].month = forecast_months[j].month)
        => i = j

\* C20: after a successful update of forecast id F, a fetch by F returns
\* the payload's month amounts and descriptive fields, with total equal to
\* the sum of the amounts.
C20_UpdateReplacesBatch ==
    (last.op = "update" /\ last.result # Returned(None))
    => LET fetched == FetchById(last.target)
       IN  /\ HasAmountsOf(fetched, last.payload)
           /\ fetched.value.project_name = last.payload.project_name
           /\ fetched.value.profit_center = last.payload.profit_center
           /\ fetched.value.wbs = last.payload.wbs
           /\ fetched.value.account = last.payload.account

\* The part of C20 for a payload of the project that F names.
UpdateOfSameProjectReplacesBatch ==
    (/\ last.op = "update" /\ last.result # Returned(None)
     /\ decode_forecast_id(last.target).value[1] = last.payload.project_id[1])
    => /\ HasAmountsOf(FetchById(last.target), last.payload)
       /\ FetchById(last.target).value.wbs = last.payload.wbs

(***************************************************************************)
(* Claims about the deletion of forecasts.                                 *)
(***************************************************************************)
\* What ForecastRepository.get_by_id(forecast_id) returns when the monthly
\* table holds the given rows.
FetchFrom(months, forecast_id) ==
    LET decoded == decode_forecast_id(forecast_id)
        found   == SortedByMonth(
                       SelectSeq(months,
                                 LAMBDA r : /\ r.project_id = Some(decoded.value[1])
                                            /\ r.year = decoded.value[2]))
    IN  IF decoded.raised # "" THEN Returned(None)
        ELSE IF Len(found) = 0 THEN Returned(None)
        ELSE AsForecast(monthly_records_to_yearly_forecast(found))

\* C21: a delete of a forecast id whose grouping key has rows returns True
\* and removes every row of that key; a fetch of the id afterwards returns
\* None; the rows of the other keys, in their order, and the snapshot
\* tables are as before.
C21_DeleteRemovesForecast ==
    [][(last'.op = "delete" /\ HasRows(last'.target))
       => LET decoded == decode_forecast_id(last'.target)
              OfKey(r) == /\ r.project_id = Some(decoded.value[1])
                          /\ r.year = decoded.value[2]
          IN  /\ last'.result = Returned(TRUE)
              /\ \A i \in 1..Len(forecast_months') : ~OfKey(forecast_months'[i])
              /\ FetchFrom(forecast_months', last'.target) = Returned(None)
              /\ forecast_months'
                    = SelectSeq(forecast_months, LAMBDA r : ~OfKey(r))
              /\ snapshot_headers' = snapshot_headers
              /\ snapshot_months' = snapshot_months]_vars

\* The last call was a delete that returned True, while the twelve rows of
\* another project and a snapshot are stored.
C21_Witness ==
    /\ last.op = "delete"
    /\ last.result = Returned(TRUE)
    /\ Len(forecast_months) = 12
    /\ snapshot_headers # <<>>
    /\ FetchById(last.target) = Returned(None)

(***************************************************************************)
(* Claims about malformed forecast ids.                                    *)
(***************************************************************************)
\* What a call of the operation returns for a well-formed forecast id whose
\* grouping key has no rows.
NotFoundOutcome(op) == IF op = "delete" THEN Returned(FALSE) ELSE Returned(None)

\* C22: a get, update or delete of a forecast id that fails to decode never
\* has the outcome that the same operation has for a well-formed id whose
\* forecast does not exist.
C22_MalformedIsNotNotFound ==
    (/\ last.op \in {"get_by_id", "update", "delete"}
     /\ decode_forecast_id(last.target) = ValueError)
    => last.result # NotFoundOutcome(last.op)

(***************************************************************************)
(* Claims about the yearly view of a snapshot.                             *)
(***************************************************************************)
\* The position of the first record among those with the smallest month.
LeastMonth(rows) ==
    CHOOSE i \in 1..Len(rows) :
        /\ \A j \in 1..Len(rows) : rows[i].month <= rows[j].month
        /\ \A j \in 1..(i - 1) : rows[j].month > rows[i].month

\* C24: the yearly view of a snapshot header has the header's project_id,
\* department_id, year, approval and submission fields, the descriptive
\* fields of the monthly record with the smallest month, and as forecast_id
\* the encoding of the header's project_id and year, which decodes to them.
C24_SnapshotViewFields ==
    (Folded /\ conv.kind = "snapshot")
    => LET header == conv.header
           rows   == header.monthly_snapshots
           view   == conv.out.value
       IN  /\ \A k \in {"project_id", "department_id", "year", "is_approved",
                         "approved_by", "approved_at", "submitted_by",
                         "snapshot_date"} : view[k] = header[k]
           /\ \A k \in {"project_name", "profit_center", "wbs", "account"} :
                  view[k] = rows[LeastMonth(rows)][k]
           /\ view.forecast_id = encode_forecast_id(header.project_id, header.year)
           /\ decode_forecast_id(view.forecast_id)
                 = Returned(<<header.project_id[1], header.year>>)

\* The view of an approved header of project 2 was built from two records
\* given with the larger month first, which differ in the project name.
C24_Witness ==
    /\ Folded /\ conv.kind = "snapshot"
    /\ conv.header.is_approved
    /\ Len(conv.header.monthly_snapshots) = 2
    /\ conv.header.monthly_snapshots[1].month > conv.header.monthly_snapshots[2].month
    /\ conv.header.monthly_snapshots[1].project_name
         # conv.header.monthly_snapshots[2].project_name
    /\ conv.out.value.project_name = conv.header.monthly_snapshots[2].project_name
    /\ conv.out.value.forecast_id = <<"2", "_", "2", "0", "2", "7">>

(***************************************************************************)
(* Claims about the order of the folded records.                           *)
(***************************************************************************)
\* Other orderings of the records: the reversal, the exchanges of two
\* neighbours and the rotations, which for up to three records are all the
\* orderings.
Reorderings(rows) ==
    LET n == Len(rows)
    IN  {List([i \in 1..n |-> rows[n + 1 - i]])}
        \cup {List([i \in 1..n |-> IF i = k THEN rows[k + 1]
                                  ELSE IF i = k + 1 THEN rows[k]
                                  ELSE rows[i]]) : k \in 1..(n - 1)}
        \cup {List([i \in 1..n |-> rows[((i + k - 1) % n) + 1]]) : k \in 1..(n - 1)}

\* C26: for records with pairwise distinct months, the fold of every other
\* ordering of the records equals the fold of the given one; its
\* descriptive and audit fields are those of the record with the smallest
\* month, and its id encodes that record's project_id and year.
C26_FoldIgnoresOrder ==
    (Folded /\ conv.kind = "monthly" /\ DistinctMonths(conv.rows))
    => LET least == conv.rows[LeastMonth(conv.rows)]
           view  == conv.out.value
       IN  /\ \A other \in Reorderings(conv.rows) :
                  monthly_records_to_yearly_forecast(other) = conv.out
           /\ \A k \in {"department_id", "project_id", "project_name",
                         "profit_center", "wbs", "account", "created_by",
                         "created_at", "updated_at"} : view[k] = least[k]
           /\ view.id = encode_forecast_id(least.project_id, least.year)

\* Two records of different months and project names were folded, given
\* with the larger month first, and the view has the name of the second.
C26_Witness ==
    /\ Folded /\ conv.kind = "monthly"
    /\ Len(conv.rows) = 2
    /\ conv.rows[1].month > conv.rows[2].month
    /\ conv.rows[1].project_name # conv.rows[2].project_name
    /\ conv.out.value.project_name = conv.rows[2].project_name

(***************************************************************************)
(* Claims about what an approval leaves alone.                             *)
(***************************************************************************)
\* The fields of a header that are not approval fields.
Submission(header) ==
    [k \in {"id", "line_id", "department_id", "project_id", "year", "batch_id",
            "submitted_by", "snapshot_date"} |-> header[k]]

\* C27: an approve step keeps the number and order of the headers, changes
\* no field of the targeted header other than is_approved, approved_by and
\* approved_at, no other header, no snapshot monthly row and no live row.
C27_ApproveChangesOnlyApproval ==
    [][last'.op = "approve"
       => /\ Len(snapshot_headers') = Len(snapshot_headers)
          /\ \A i \in 1..Len(snapshot_headers) :
                 /\ Submission(snapshot_headers'[i]) = Submission(snapshot_headers[i])
                 /\ snapshot_headers[i].id # last'.target
                    => snapshot_headers'[i] = snapshot_headers[i]
          /\ snapshot_months' = snapshot_months
          /\ forecast_months' = forecast_months]_vars

\* The last call approved header 1, which now carries the approver, while a
\* second header is still pending.
C27_Witness ==
    /\ last.op = "approve"
    /\ Len(snapshot_headers) = 2
    /\ snapshot_headers[1].id = last.target
    /\ snapshot_headers[1].approved_by = Some(last.approved_by)
    /\ Pending(snapshot_headers[2])
    /\ forecast_months # <<>>

(***************************************************************************)
(* Claims about the batch id of the snapshot views.                        *)
(***************************************************************************)
\* C29: a fetch or an approval of a stored snapshot returns a yearly view
\* that carries the batch id of the header, and so does a snapshot
\* creation that stored a header.
C29_ViewsCarryBatchId ==
    /\ (/\ last.op \in {"snapshot_get_by_id", "approve"}
        /\ last.target \in HeaderIds(snapshot_headers))
       => /\ last.result.raised = ""
          /\ "batch_id" \in DOMAIN last.result.value
          /\ Some(last.result.value.batch_id)
                = HeaderOf(snapshot_headers, last.target).batch_id
    /\ (last.op = "create_from_forecast" /\ last.result # ValueError)
       => /\ last.result.raised = ""
          /\ "batch_id" \in DOMAIN last.result.value
          /\ Some(last.result.value.batch_id)
                = snapshot_headers[Len(snapshot_headers)].batch_id

\* C30: after a bulk creation that raised an error, no stored header
\* carries the batch id of that call.
C30_BulkIsAllOrNothing ==
    (last.op = "create_bulk_snapshots" /\ last.result.raised # "")
    => \A i \in 1..Len(snapshot_headers) :
          snapshot_headers[i].batch_id
             # Some(Format(Some(last.target)) \o <<"_">> \o IntToStr(calls))

(***************************************************************************)
(* Claims about the rows of a snapshot.                                    *)
(***************************************************************************)
\* C25: every stored snapshot header owns exactly twelve snapshot monthly
\* rows, one of each month 1..12, and every snapshot monthly row belongs
\* to exactly one stored header.
C25_TwelveRowsPerHeader ==
    /\ \A i \in 1..Len(snapshot_headers) :
          LET rows == Loaded(snapshot_headers[i]).monthly_snapshots
          IN  /\ Len(rows) = 12
              /\ \A m \in 1..12 :
                     Cardinality({k \in 1..12 : rows[k].month = m}) = 1
    /\ \A k \in 1..Len(snapshot_months) :
          Cardinality({i \in 1..Len(snapshot_headers) :
                          snapshot_headers[i].id
                             = snapshot_months[k].snapshot_header_id}) = 1

\* A header is stored with its twelve rows, of the months 1..12 in order,
\* while some project has two batches of live rows, whose snapshot the
\* constraint would reject.
C25_Witness ==
    /\ Len(snapshot_headers) = 1
    /\ Len(snapshot_months) = 12
    /\ \A m \in 1..12 : snapshot_months[m].month = m
    /\ \E p \in Projects : Len(MonthsOf(p, DEFAULT_YEAR)) = 24

C28_ConcurrentCreatesExclude ==
    \A s \in Sessions :
        (/\ sessions[s].op = "create" /\ sessions[s].pc = "idle"
         /\ sessions[Other(s)].op = "create" /\ sessions[Other(s)].pc = "idle"
         /\ sessions[s].payload.project_id = sessions[Other(s)].payload.project_id
         /\ sessions[s].during \in {"check", "insert"})
        => /\ ValueError \in {sessions[s].result, sessions[Other(s)].result}
           /\ Len(MonthsOf(sessions[s].payload.project_id[1], DEFAULT_YEAR)) <= 12

====
